---- MODULE Spec2Model ----
(***************************************************************************)
(* Model of unitconverter.py: the static table of scale factors, the       *)
(* temperature formulas, list_quantities / list_units / convert, the       *)
(* interactive loop _cli and the command-line entry point.                 *)
(*                                                                         *)
(* Numbers are exact.  A number is c * prod(a^x[a]) with c a rational in   *)
(* lowest terms and x a map from atoms (primes written as strings, and     *)
(* "pi") to non-zero exponents, so that the table's factors (1024.0**4,    *)
(* 1.602176634e-19, math.pi / 180.0) are held exactly and multiplied and   *)
(* divided without leaving the integer range.  Floating-point rounding is  *)
(* not modelled.                                                           *)
(***************************************************************************)
EXTENDS Integers, Sequences, FiniteSets, TLC

VARIABLES
    call,      \* core: the call under study, [op, quantity, value, from_unit, to_unit]
    ret,       \* core: << >> before the call, then <<its outcome>>
    back,      \* core: << >>, then <<outcome of converting ret's value back>>
    argv,      \* program: sys.argv
    pc,        \* program: where the process is
    line,      \* program: what the last input() returned, or how it raised
    locals,    \* program: q, v, fu, tu of _cli
    printed,   \* program: what the last step printed
    converts,  \* program: number of calls of convert so far
    prompts,   \* program: number of calls of input() so far
    rounds     \* program: number of passes through the loop of _cli

vars == <<call, ret, back, argv, pc, line, locals, printed, converts, prompts, rounds>>
coreVars == <<call, ret, back>>
progVars == <<argv, pc, line, locals, printed, converts, prompts, rounds>>

(***************************************************************************)
(* Bounds of the model.                                                    *)
(***************************************************************************)
MaxPad == 1        \* whitespace characters put on each side of an input
MaxDecorated == 2  \* aliases per quantity also tried upper-cased and padded
MaxRounds == 2     \* rounds of the interactive loop that are explored

(***************************************************************************)
(* Exact arithmetic.                                                       *)
(***************************************************************************)
Abs(n) == IF n < 0 THEN -n ELSE n

RECURSIVE GCD(_, _)
GCD(a, b) == IF b = 0 THEN a ELSE GCD(b, a % b)

Ratio(n, d) ==
    LET g == GCD(Abs(n), Abs(d))
        s == IF d < 0 THEN -1 ELSE 1
    IN  <<s * (n \div g), s * (d \div g)>>

NoAtoms == << >>

Num(n, d) == [c |-> Ratio(n, d), x |-> NoAtoms]
Factor(x) == [c |-> <<1, 1>>, x |-> x]
One == Num(1, 1)

IsZero(a) == a.c[1] = 0
IsPositive(a) == a.c[1] > 0

Exponent(a, p) == IF p \in DOMAIN a.x THEN a.x[p] ELSE 0

Scaled(c, a, b, sign) ==
    LET dom == {p \in DOMAIN a.x \cup DOMAIN b.x :
                    Exponent(a, p) + sign * Exponent(b, p) # 0}
    IN  [c |-> c,
         x |-> IF c[1] = 0 THEN NoAtoms
               ELSE [p \in dom |-> Exponent(a, p) + sign * Exponent(b, p)]]

\* a * b
Mul(a, b) == Scaled(Ratio(a.c[1] * b.c[1], a.c[2] * b.c[2]), a, b, 1)

\* a / b, for b # 0 (no factor of the table is zero)
Div(a, b) == Scaled(Ratio(a.c[1] * b.c[2], a.c[2] * b.c[1]), a, b, -1)

\* a + b and a - b, for operands with the same atoms (the temperature
\* formulas add plain rationals)
Add(a, b) ==
    LET c == Ratio(a.c[1] * b.c[2] + b.c[1] * a.c[2], a.c[2] * b.c[2])
    IN  [c |-> c, x |-> IF c[1] = 0 THEN NoAtoms ELSE a.x]

Sub(a, b) == Add(a, [c |-> <<-b.c[1], b.c[2]>>, x |-> b.x])

(***************************************************************************)
(* Strings: str.strip(), str.lower(), and the order sorted() uses.         *)
(***************************************************************************)
\* TLC's state store keeps one byte of each character, so the non-ASCII
\* characters of the source are written as ASCII characters that occur
\* nowhere else in it:  "*" for the degree sign U+00B0,  "%" and "&" for
\* small and capital omega U+03C9, U+03A9,  "$" and "#" for small and
\* capital mu U+03BC, U+039C.
UpperChars == "ABCDEFGHIJKLMNOPQRSTUVWXYZ&#"
LowerChars == "abcdefghijklmnopqrstuvwxyz%$"
\* the characters of the model in code point order (the five non-ASCII
\* characters last: U+00B0, U+039C, U+03A9, U+03BC, U+03C9)
CodePoints == "\t\n\f\r -/0123456789ABCDEFGHIJKLMNOPQRSTUVWXYZ^_abcdefghijklmnopqrstuvwxyz*#&$%"

Whitespace == {" ", "\t", "\n", "\r", "\f"}

CharAt(s, i) == SubSeq(s, i, i)

Chars(s) == {CharAt(s, i) : i \in 1..Len(s)}

IndexIn(s, c) ==
    LET at == {i \in 1..Len(s) : CharAt(s, i) = c}
    IN  IF at = {} THEN 0 ELSE CHOOSE i \in at : TRUE

ToLower == [c \in Chars(UpperChars) |-> CharAt(LowerChars, IndexIn(UpperChars, c))]
ToUpper == [c \in Chars(LowerChars) |-> CharAt(UpperChars, IndexIn(LowerChars, c))]
CodePoint == [c \in Chars(CodePoints) |-> IndexIn(CodePoints, c)]

LowerChar(c) == IF c \in DOMAIN ToLower THEN ToLower[c] ELSE c

UpperChar(c) == IF c \in DOMAIN ToUpper THEN ToUpper[c] ELSE c

RECURSIVE lower(_)
lower(s) == IF s = "" THEN "" ELSE LowerChar(Head(s)) \o lower(Tail(s))

RECURSIVE upper(_)
upper(s) == IF s = "" THEN "" ELSE UpperChar(Head(s)) \o upper(Tail(s))

RECURSIVE lstrip(_)
lstrip(s) ==
    IF s # "" /\ Head(s) \in Whitespace THEN lstrip(Tail(s)) ELSE s

RECURSIVE rstrip(_)
rstrip(s) ==
    IF s # "" /\ CharAt(s, Len(s)) \in Whitespace
    THEN rstrip(SubSeq(s, 1, Len(s) - 1))
    ELSE s

strip(s) == rstrip(lstrip(s))

\* s < t in Python's order on str
RECURSIVE StrLess(_, _)
StrLess(s, t) ==
    IF t = "" THEN FALSE
    ELSE IF s = "" THEN TRUE
    ELSE IF Head(s) = Head(t) THEN StrLess(Tail(s), Tail(t))
    ELSE CodePoint[Head(s)] < CodePoint[Head(t)]

Range(s) == {s[i] : i \in 1..Len(s)}

\* sorted(S) for a set S of strings: each string at the place its rank gives
sorted(S) ==
    LET rank == [s \in S |-> Cardinality({t \in S : StrLess(t, s)})]
    IN  [i \in 1..Cardinality(S) |-> CHOOSE s \in S : rank[s] = i - 1]

(***************************************************************************)
(* _UNIT_MAPS: for each quantity, its (alias, factor) items in source      *)
(* order.  Each factor is the literal of the source (in the comment),      *)
(* written as its prime factorisation.                                     *)
(***************************************************************************)
UNIT_MAPS ==
    "length" :> <<
        <<"m", One>>,                                            \* 1.0
        <<"meter", One>>,                                        \* 1.0
        <<"meters", One>>,                                       \* 1.0
        <<"mm", Factor("2" :> -3 @@ "5" :> -3)>>,                \* 0.001
        <<"millimeter", Factor("2" :> -3 @@ "5" :> -3)>>,        \* 0.001
        <<"millimeters", Factor("2" :> -3 @@ "5" :> -3)>>,       \* 0.001
        <<"cm", Factor("2" :> -2 @@ "5" :> -2)>>,                \* 0.01
        <<"centimeter", Factor("2" :> -2 @@ "5" :> -2)>>,        \* 0.01
        <<"centimeters", Factor("2" :> -2 @@ "5" :> -2)>>,       \* 0.01
        <<"km", Factor("2" :> 3 @@ "5" :> 3)>>,                  \* 1000.0
        <<"kilometer", Factor("2" :> 3 @@ "5" :> 3)>>,           \* 1000.0
        <<"kilometers", Factor("2" :> 3 @@ "5" :> 3)>>,          \* 1000.0
        <<"in", Factor("127" :> 1 @@ "2" :> -3 @@ "5" :> -4)>>,  \* 0.0254
        <<"inch", Factor("127" :> 1 @@ "2" :> -3 @@ "5" :> -4)>>, \* 0.0254
        <<"inches", Factor("127" :> 1 @@ "2" :> -3 @@ "5" :> -4)>>, \* 0.0254
        <<"ft", Factor("3" :> 1 @@ "127" :> 1 @@ "2" :> -1 @@ "5" :> -4)>>, \* 0.3048
        <<"foot", Factor("3" :> 1 @@ "127" :> 1 @@ "2" :> -1 @@ "5" :> -4)>>, \* 0.3048
        <<"feet", Factor("3" :> 1 @@ "127" :> 1 @@ "2" :> -1 @@ "5" :> -4)>>, \* 0.3048
        <<"yd", Factor("3" :> 2 @@ "127" :> 1 @@ "2" :> -1 @@ "5" :> -4)>>, \* 0.9144
        <<"yard", Factor("3" :> 2 @@ "127" :> 1 @@ "2" :> -1 @@ "5" :> -4)>>, \* 0.9144
        <<"yards", Factor("3" :> 2 @@ "127" :> 1 @@ "2" :> -1 @@ "5" :> -4)>>, \* 0.9144
        <<"mi", Factor("2" :> 4 @@ "3" :> 2 @@ "11" :> 1 @@ "127" :> 1 @@ "5" :> -3)>>, \* 1609.344
        <<"mile", Factor("2" :> 4 @@ "3" :> 2 @@ "11" :> 1 @@ "127" :> 1 @@ "5" :> -3)>>, \* 1609.344
        <<"miles", Factor("2" :> 4 @@ "3" :> 2 @@ "11" :> 1 @@ "127" :> 1 @@ "5" :> -3)>> \* 1609.344
      >>
 @@ "mass" :> <<
        <<"kg", One>>,                                           \* 1.0
        <<"kilogram", One>>,                                     \* 1.0
        <<"kilograms", One>>,                                    \* 1.0
        <<"g", Factor("2" :> -3 @@ "5" :> -3)>>,                 \* 0.001
        <<"gram", Factor("2" :> -3 @@ "5" :> -3)>>,              \* 0.001
        <<"grams", Factor("2" :> -3 @@ "5" :> -3)>>,             \* 0.001
        <<"mg", Factor("2" :> -6 @@ "5" :> -6)>>,                \* 1e-6
        <<"milligram", Factor("2" :> -6 @@ "5" :> -6)>>,         \* 1e-6
        <<"milligrams", Factor("2" :> -6 @@ "5" :> -6)>>,        \* 1e-6
        <<"lb", Factor("7" :> 1 @@ "11" :> 1 @@ "97" :> 1 @@ "6073" :> 1 @@ "2" :> -8 @@ "5" :> -8)>>, \* 0.45359237
        <<"pound", Factor("7" :> 1 @@ "11" :> 1 @@ "97" :> 1 @@ "6073" :> 1 @@ "2" :> -8 @@ "5" :> -8)>>, \* 0.45359237
        <<"pounds", Factor("7" :> 1 @@ "11" :> 1 @@ "97" :> 1 @@ "6073" :> 1 @@ "2" :> -8 @@ "5" :> -8)>>, \* 0.45359237
        <<"oz", Factor("7" :> 1 @@ "11" :> 1 @@ "97" :> 1 @@ "6073" :> 1 @@ "2" :> -12 @@ "5" :> -8)>>, \* 0.028349523125
        <<"ounce", Factor("7" :> 1 @@ "11" :> 1 @@ "97" :> 1 @@ "6073" :> 1 @@ "2" :> -12 @@ "5" :> -8)>>, \* 0.028349523125
        <<"ounces", Factor("7" :> 1 @@ "11" :> 1 @@ "97" :> 1 @@ "6073" :> 1 @@ "2" :> -12 @@ "5" :> -8)>> \* 0.028349523125
      >>
 @@ "time" :> <<
        <<"s", One>>,                                            \* 1.0
        <<"sec", One>>,                                          \* 1.0
        <<"second", One>>,                                       \* 1.0
        <<"seconds", One>>,                                      \* 1.0
        <<"min", Factor("2" :> 2 @@ "3" :> 1 @@ "5" :> 1)>>,     \* 60.0
        <<"minute", Factor("2" :> 2 @@ "3" :> 1 @@ "5" :> 1)>>,  \* 60.0
        <<"minutes", Factor("2" :> 2 @@ "3" :> 1 @@ "5" :> 1)>>, \* 60.0
        <<"h", Factor("2" :> 4 @@ "3" :> 2 @@ "5" :> 2)>>,       \* 3600.0
        <<"hr", Factor("2" :> 4 @@ "3" :> 2 @@ "5" :> 2)>>,      \* 3600.0
        <<"hour", Factor("2" :> 4 @@ "3" :> 2 @@ "5" :> 2)>>,    \* 3600.0
        <<"hours", Factor("2" :> 4 @@ "3" :> 2 @@ "5" :> 2)>>,   \* 3600.0
        <<"day", Factor("2" :> 7 @@ "3" :> 3 @@ "5" :> 2)>>,     \* 86400.0
        <<"days", Factor("2" :> 7 @@ "3" :> 3 @@ "5" :> 2)>>     \* 86400.0
      >>
 @@ "area" :> <<
        <<"m2", One>>,                                           \* 1.0
        <<"m^2", One>>,                                          \* 1.0
        <<"sqm", One>>,                                          \* 1.0
        <<"cm2", Factor("2" :> -4 @@ "5" :> -4)>>,               \* 0.0001
        <<"cm^2", Factor("2" :> -4 @@ "5" :> -4)>>,              \* 0.0001
        <<"km2", Factor("2" :> 6 @@ "5" :> 6)>>,                 \* 1e6
        <<"km^2", Factor("2" :> 6 @@ "5" :> 6)>>,                \* 1e6
        <<"ha", Factor("2" :> 4 @@ "5" :> 4)>>,                  \* 10000.0
        <<"hectare", Factor("2" :> 4 @@ "5" :> 4)>>,             \* 10000.0
        <<"acre", Factor("2" :> 1 @@ "3" :> 4 @@ "11" :> 2 @@ "127" :> 2 @@ "5" :> -7)>> \* 4046.8564224
      >>
 @@ "volume" :> <<
        <<"m3", One>>,                                           \* 1.0
        <<"m^3", One>>,                                          \* 1.0
        <<"l", Factor("2" :> -3 @@ "5" :> -3)>>,                 \* 0.001
        <<"liter", Factor("2" :> -3 @@ "5" :> -3)>>,             \* 0.001
        <<"litre", Factor("2" :> -3 @@ "5" :> -3)>>,             \* 0.001
        <<"ml", Factor("2" :> -6 @@ "5" :> -6)>>,                \* 1e-6
        <<"cm3", Factor("2" :> -6 @@ "5" :> -6)>>,               \* 1e-6
        <<"cm^3", Factor("2" :> -6 @@ "5" :> -6)>>,              \* 1e-6
        <<"cc", Factor("2" :> -6 @@ "5" :> -6)>>,                \* 1e-6
        <<"gal", Factor("3" :> 1 @@ "7" :> 1 @@ "11" :> 1 @@ "127" :> 3 @@ "2" :> -9 @@ "5" :> -12)>>, \* 0.003785411784
        <<"gallon", Factor("3" :> 1 @@ "7" :> 1 @@ "11" :> 1 @@ "127" :> 3 @@ "2" :> -9 @@ "5" :> -12)>> \* 0.003785411784
      >>
 @@ "speed" :> <<
        <<"m/s", One>>,                                          \* 1.0
        <<"mps", One>>,                                          \* 1.0
        <<"km/h", Factor("5" :> 1 @@ "2" :> -1 @@ "3" :> -2)>>,  \* 1000.0 / 3600.0
        <<"kph", Factor("5" :> 1 @@ "2" :> -1 @@ "3" :> -2)>>,   \* 1000.0 / 3600.0
        <<"mph", Factor("11" :> 1 @@ "127" :> 1 @@ "5" :> -5)>>, \* 1609.344 / 3600.0
        <<"knot", Factor("463" :> 1 @@ "2" :> -2 @@ "3" :> -2 @@ "5" :> -2)>> \* 1852.0 / 3600.0
      >>
 @@ "pressure" :> <<
        <<"pa", One>>,                                           \* 1.0
        <<"pascal", One>>,                                       \* 1.0
        <<"kpa", Factor("2" :> 3 @@ "5" :> 3)>>,                 \* 1000.0
        <<"bar", Factor("2" :> 5 @@ "5" :> 5)>>,                 \* 100000.0
        <<"atm", Factor("3" :> 1 @@ "5" :> 2 @@ "7" :> 1 @@ "193" :> 1)>>, \* 101325.0
        <<"psi", Factor("3" :> 1 @@ "143640776941" :> 1 @@ "2" :> -5 @@ "5" :> -9)>> \* 6894.757293168
      >>
 @@ "energy" :> <<
        <<"j", One>>,                                            \* 1.0
        <<"joule", One>>,                                        \* 1.0
        <<"kj", Factor("2" :> 3 @@ "5" :> 3)>>,                  \* 1000.0
        <<"cal", Factor("523" :> 1 @@ "5" :> -3)>>,              \* 4.184
        <<"kcal", Factor("2" :> 3 @@ "523" :> 1)>>,              \* 4184.0
        <<"wh", Factor("2" :> 4 @@ "3" :> 2 @@ "5" :> 2)>>,      \* 3600.0
        <<"kwh", Factor("2" :> 7 @@ "3" :> 2 @@ "5" :> 5)>>,     \* 3.6e6
        <<"ev", Factor("3" :> 2 @@ "19" :> 1 @@ "389" :> 1 @@ "12043" :> 1 @@ "2" :> -27 @@ "5" :> -28)>> \* 1.602176634e-19
      >>
 @@ "power" :> <<
        <<"w", One>>,                                            \* 1.0
        <<"watt", One>>,                                         \* 1.0
        <<"kw", Factor("2" :> 3 @@ "5" :> 3)>>,                  \* 1000.0
        <<"hp", Factor("3" :> 1 @@ "593" :> 1 @@ "13099" :> 1 @@ "2" :> -1 @@ "5" :> -6)>> \* 745.699872
      >>
 @@ "data" :> <<
        <<"b", One>>,                                            \* 1.0
        <<"byte", One>>,                                         \* 1.0
        <<"kb", Factor("2" :> 10)>>,                             \* 1024.0
        <<"kib", Factor("2" :> 10)>>,                            \* 1024.0
        <<"mb", Factor("2" :> 20)>>,                             \* 1024.0**2
        <<"gb", Factor("2" :> 30)>>,                             \* 1024.0**3
        <<"tb", Factor("2" :> 40)>>,                             \* 1024.0**4
        <<"bit", Factor("2" :> -3)>>                             \* 1.0 / 8.0
      >>
 @@ "angle" :> <<
        <<"rad", One>>,                                          \* 1.0
        <<"radian", One>>,                                       \* 1.0
        <<"radians", One>>,                                      \* 1.0
        <<"deg", Factor("2" :> -2 @@ "3" :> -2 @@ "5" :> -1 @@ "pi" :> 1)>>, \* math.pi / 180.0
        <<"degree", Factor("2" :> -2 @@ "3" :> -2 @@ "5" :> -1 @@ "pi" :> 1)>> \* math.pi / 180.0
      >>
 @@ "force" :> <<
        <<"n", One>>,                                            \* 1.0
        <<"newton", One>>,                                       \* 1.0
        <<"kn", Factor("2" :> 3 @@ "5" :> 3)>>,                  \* 1000.0
        <<"kN", Factor("2" :> 3 @@ "5" :> 3)>>,                  \* 1000.0
        <<"lbf", Factor("7" :> 2 @@ "11" :> 1 @@ "97" :> 1 @@ "6073" :> 1 @@ "28019" :> 1 @@ "2" :> -13 @@ "5" :> -12)>>, \* 4.4482216152605
        <<"pound-force", Factor("7" :> 2 @@ "11" :> 1 @@ "97" :> 1 @@ "6073" :> 1 @@ "28019" :> 1 @@ "2" :> -13 @@ "5" :> -12)>> \* 4.4482216152605
      >>
 @@ "frequency" :> <<
        <<"hz", One>>,                                           \* 1.0
        <<"hertz", One>>,                                        \* 1.0
        <<"khz", Factor("2" :> 3 @@ "5" :> 3)>>,                 \* 1e3
        <<"mhz", Factor("2" :> 6 @@ "5" :> 6)>>,                 \* 1e6
        <<"ghz", Factor("2" :> 9 @@ "5" :> 9)>>,                 \* 1e9
        <<"rpm", Factor("2" :> -2 @@ "3" :> -1 @@ "5" :> -1)>>   \* 1.0 / 60.0
      >>
 @@ "electric_current" :> <<
        <<"a", One>>,                                            \* 1.0
        <<"amp", One>>,                                          \* 1.0
        <<"ampere", One>>,                                       \* 1.0
        <<"ma", Factor("2" :> -3 @@ "5" :> -3)>>                 \* 1e-3
      >>
 @@ "voltage" :> <<
        <<"v", One>>,                                            \* 1.0
        <<"volt", One>>,                                         \* 1.0
        <<"mv", Factor("2" :> -3 @@ "5" :> -3)>>,                \* 1e-3
        <<"kv", Factor("2" :> 3 @@ "5" :> 3)>>                   \* 1e3
      >>
 @@ "resistance" :> <<
        <<"ohm", One>>,                                          \* 1.0
        <<"%", One>>,                                            \* "U+03C9": 1.0
        <<"ohms", One>>,                                         \* 1.0
        <<"kohm", Factor("2" :> 3 @@ "5" :> 3)>>,                \* 1e3
        <<"k%", Factor("2" :> 3 @@ "5" :> 3)>>,                  \* "kU+03C9": 1e3
        <<"mohm", Factor("2" :> -3 @@ "5" :> -3)>>               \* 1e-3
      >>
 @@ "capacitance" :> <<
        <<"f", One>>,                                            \* 1.0
        <<"farad", One>>,                                        \* 1.0
        <<"mf", Factor("2" :> -3 @@ "5" :> -3)>>,                \* 1e-3
        <<"uf", Factor("2" :> -6 @@ "5" :> -6)>>,                \* 1e-6
        <<"nf", Factor("2" :> -9 @@ "5" :> -9)>>,                \* 1e-9
        <<"pf", Factor("2" :> -12 @@ "5" :> -12)>>               \* 1e-12
      >>
 @@ "inductance" :> <<
        <<"h", One>>,                                            \* 1.0
        <<"henry", One>>,                                        \* 1.0
        <<"mh", Factor("2" :> -3 @@ "5" :> -3)>>,                \* 1e-3
        <<"uh", Factor("2" :> -6 @@ "5" :> -6)>>                 \* 1e-6
      >>
 @@ "luminous_flux" :> <<
        <<"lm", One>>,                                           \* 1.0
        <<"lumen", One>>                                         \* 1.0
      >>
 @@ "luminous_intensity" :> <<
        <<"cd", One>>,                                           \* 1.0
        <<"candela", One>>                                       \* 1.0
      >>
 @@ "illuminance" :> <<
        <<"lx", One>>,                                           \* 1.0
        <<"lux", One>>                                           \* 1.0
      >>
 @@ "amount" :> <<
        <<"mol", One>>,                                          \* 1.0
        <<"mole", One>>,                                         \* 1.0
        <<"mmol", Factor("2" :> -3 @@ "5" :> -3)>>,              \* 1e-3
        <<"umol", Factor("2" :> -6 @@ "5" :> -6)>>,              \* 1e-6
        <<"$mol", Factor("2" :> -6 @@ "5" :> -6)>>               \* "U+03BC mol": 1e-6
      >>
 @@ "concentration" :> <<
        <<"m", One>>,                                            \* 1.0
        <<"molar", One>>,                                        \* 1.0
        <<"mol/l", One>>,                                        \* 1.0
        <<"mol/liter", One>>,                                    \* 1.0
        <<"mmol/l", Factor("2" :> -3 @@ "5" :> -3)>>,            \* 1e-3
        <<"mol/m3", Factor("2" :> 3 @@ "5" :> 3)>>               \* 1000.0
      >>
 @@ "magnetic_flux_density" :> <<
        <<"t", One>>,                                            \* 1.0
        <<"tesla", One>>,                                        \* 1.0
        <<"gauss", Factor("2" :> -4 @@ "5" :> -4)>>              \* 1e-4
      >>
 @@ "frequency_time" :> << >>


(***************************************************************************)
(* Outcomes: a returned value, or a raised ValueError with its message and *)
(* the source line of the raise statement.                                 *)
(***************************************************************************)
Ok(x) == [ok |-> TRUE, val |-> <<x>>, msg |-> "", at |-> 0]
Raise(msg, at) == [ok |-> FALSE, val |-> << >>, msg |-> msg, at |-> at]

CelsiusAliases == {"c", "celsius", "*c"}
FahrenheitAliases == {"f", "fahrenheit", "*f"}
KelvinAliases == {"k", "kelvin", "kelvins", "*k"}

Zero_C == Num(27315, 100)   \* 273.15
Zero_F == Num(32, 1)        \* 32.0
Five == Num(5, 1)
Nine == Num(9, 1)

\* variant: a unit that is no alias is taken for Kelvin instead of raising
temp_to_kelvin_default_kelvin(value, unit) ==
    LET u == lower(strip(unit))
    IN  IF u \in CelsiusAliases THEN Ok(Add(value, Zero_C))
        ELSE IF u \in FahrenheitAliases
        THEN Ok(Add(Div(Mul(Sub(value, Zero_F), Five), Nine), Zero_C))
        ELSE Ok(value)

\* variant: the Fahrenheit slope is 9/5 where the source has 5/9
temp_to_kelvin_wrong_slope(value, unit) ==
    LET u == lower(strip(unit))
    IN  IF u \in CelsiusAliases THEN Ok(Add(value, Zero_C))
        ELSE IF u \in FahrenheitAliases
        THEN Ok(Add(Div(Mul(Sub(value, Zero_F), Nine), Five), Zero_C))
        ELSE IF u \in KelvinAliases THEN Ok(value)
        ELSE Raise("Unsupported temperature unit: " \o unit, 140)

\* variant: the unit is trimmed but not lowercased
temp_to_kelvin_case_sensitive(value, unit) ==
    LET u == strip(unit)
    IN  IF u \in CelsiusAliases THEN Ok(Add(value, Zero_C))
        ELSE IF u \in FahrenheitAliases
        THEN Ok(Add(Div(Mul(Sub(value, Zero_F), Five), Nine), Zero_C))
        ELSE IF u \in KelvinAliases THEN Ok(value)
        ELSE Raise("Unsupported temperature unit: " \o unit, 140)

temp_to_kelvin(value, unit) ==
    LET u == lower(strip(unit))
    IN  IF u \in CelsiusAliases THEN Ok(Add(value, Zero_C))
        ELSE IF u \in FahrenheitAliases
        THEN Ok(Add(Div(Mul(Sub(value, Zero_F), Five), Nine), Zero_C))
        ELSE IF u \in KelvinAliases THEN Ok(value)
        ELSE Raise("Unsupported temperature unit: " \o unit, 140)

kelvin_to_temp(value_k, unit) ==
    LET u == lower(strip(unit))
    IN  IF u \in CelsiusAliases THEN Ok(Sub(value_k, Zero_C))
        ELSE IF u \in FahrenheitAliases
        THEN Ok(Add(Div(Mul(Sub(value_k, Zero_C), Nine), Five), Zero_F))
        ELSE IF u \in KelvinAliases THEN Ok(value_k)
        ELSE Raise("Unsupported temperature unit: " \o unit, 150)

Keys(items) == {items[i][1] : i \in 1..Len(items)}

list_quantities == sorted(DOMAIN UNIT_MAPS \cup {"temperature"})

list_units(quantity) ==
    LET qn == lower(strip(quantity))
    IN  IF qn = "temperature" THEN Ok(<<"C", "F", "K">>)
        ELSE IF qn \in DOMAIN UNIT_MAPS THEN Ok(sorted(Keys(UNIT_MAPS[qn])))
        ELSE Raise("Unknown quantity: " \o quantity, 161)

\* {k.strip().lower(): v for k, v in units.items()}: a later item
\* replaces an earlier one with the same normalised key
RECURSIVE units_l(_)
units_l(items) ==
    IF items = << >> THEN << >>
    ELSE LET n == Len(items)
         IN  (lower(strip(items[n][1])) :> items[n][2])
                 @@ units_l(SubSeq(items, 1, n - 1))

\* variant: divides where the source multiplies
ToBase_divides(value, factor) == Div(value, factor)

\* base_value = value * units_l[fu]
ToBase(value, factor) == Mul(value, factor)

\* variant: multiplies where the source divides
FromBase_multiplies(base_value, factor) == Mul(base_value, factor)

\* result = base_value / units_l[tu]
FromBase(base_value, factor) == Div(base_value, factor)

\* variant: to_unit is checked before from_unit
convert_to_unit_first(quantity, value, from_unit, to_unit) ==
    LET qn == lower(strip(quantity))
    IN  IF qn = "temperature"
        THEN LET k == temp_to_kelvin(value, from_unit)
             IN  IF k.ok THEN kelvin_to_temp(k.val[1], to_unit) ELSE k
        ELSE IF qn \notin DOMAIN UNIT_MAPS
        THEN Raise("Unsupported quantity: " \o quantity, 173)
        ELSE LET table == units_l(UNIT_MAPS[qn])
                 f == lower(strip(from_unit))
                 t == lower(strip(to_unit))
             IN  IF t \notin DOMAIN table
                 THEN Raise("Unknown unit for " \o quantity \o ": " \o to_unit, 183)
                 ELSE IF f \notin DOMAIN table
                 THEN Raise("Unknown unit for " \o quantity \o ": " \o from_unit, 181)
                 ELSE LET base_value == ToBase(value, table[f])
                      IN  Ok(FromBase(base_value, table[t]))

\* variant: the units are looked up as given, neither trimmed nor lowercased
convert_raw_units(quantity, value, from_unit, to_unit) ==
    LET qn == lower(strip(quantity))
    IN  IF qn = "temperature"
        THEN LET k == temp_to_kelvin(value, from_unit)
             IN  IF k.ok THEN kelvin_to_temp(k.val[1], to_unit) ELSE k
        ELSE IF qn \notin DOMAIN UNIT_MAPS
        THEN Raise("Unsupported quantity: " \o quantity, 173)
        ELSE LET table == units_l(UNIT_MAPS[qn])
                 f == from_unit
                 t == to_unit
             IN  IF f \notin DOMAIN table
                 THEN Raise("Unknown unit for " \o quantity \o ": " \o from_unit, 181)
                 ELSE IF t \notin DOMAIN table
                 THEN Raise("Unknown unit for " \o quantity \o ": " \o to_unit, 183)
                 ELSE LET base_value == ToBase(value, table[f])
                      IN  Ok(FromBase(base_value, table[t]))

convert(quantity, value, from_unit, to_unit) ==
    LET qn == lower(strip(quantity))
    IN  IF qn = "temperature"
        THEN LET k == temp_to_kelvin(value, from_unit)
             IN  IF k.ok THEN kelvin_to_temp(k.val[1], to_unit) ELSE k
        ELSE IF qn \notin DOMAIN UNIT_MAPS
        THEN Raise("Unsupported quantity: " \o quantity, 173)
        ELSE LET table == units_l(UNIT_MAPS[qn])
                 f == lower(strip(from_unit))
                 t == lower(strip(to_unit))
             IN  IF f \notin DOMAIN table
                 THEN Raise("Unknown unit for " \o quantity \o ": " \o from_unit, 181)
                 ELSE IF t \notin DOMAIN table
                 THEN Raise("Unknown unit for " \o quantity \o ": " \o to_unit, 183)
                 ELSE LET base_value == ToBase(value, table[f])
                      IN  Ok(FromBase(base_value, table[t]))

(***************************************************************************)
(* float(s) for the decimal spellings [sign] digits [. digits], with       *)
(* surrounding whitespace; every other string of the model's inputs is     *)
(* one float() rejects as well.                                            *)
(***************************************************************************)
Digits == "0123456789"

IsDigits(s) == \A i \in 1..Len(s) : IndexIn(Digits, CharAt(s, i)) # 0

RECURSIVE DigitsValue(_)
DigitsValue(s) ==
    IF s = "" THEN 0
    ELSE 10 * DigitsValue(SubSeq(s, 1, Len(s) - 1))
             + IndexIn(Digits, CharAt(s, Len(s))) - 1

RECURSIVE Pow10(_)
Pow10(n) == IF n = 0 THEN 1 ELSE 10 * Pow10(n - 1)

float(s) ==
    LET t == strip(s)
        signed == t # "" /\ Head(t) \in {"+", "-"}
        body == IF signed THEN Tail(t) ELSE t
        dot == IndexIn(body, ".")
        ip == IF dot = 0 THEN body ELSE SubSeq(body, 1, dot - 1)
        fp == IF dot = 0 THEN "" ELSE SubSeq(body, dot + 1, Len(body))
        n == DigitsValue(ip) * Pow10(Len(fp)) + DigitsValue(fp)
    IN  IF IsDigits(ip) /\ IsDigits(fp) /\ Len(ip) + Len(fp) > 0
        THEN Ok(Num(IF signed /\ Head(t) = "-" THEN -n ELSE n, Pow10(Len(fp))))
        ELSE Raise("could not convert string to float: '" \o s \o "'", 0)

(***************************************************************************)
(* What print writes: a line of text, with the numbers it formats kept     *)
(* beside it.                                                              *)
(***************************************************************************)
Text(s) == [text |-> s, vals |-> << >>]

USAGE == Text("Usage: unitconverter.py [quantity value from_unit to_unit]")
EXAMPLE == Text("Example: python unitconverter.py length 10 m ft")

RECURSIVE Join(_, _)
Join(sep, seq) ==
    IF seq = << >> THEN ""
    ELSE IF Len(seq) = 1 THEN seq[1]
    ELSE seq[1] \o sep \o Join(sep, Tail(seq))

Banner ==
    <<Text("UnitConverter CLI. Supported quantities:")>>
        \o [i \in 1..Len(list_quantities) |-> Text(" - " \o list_quantities[i])]

(***************************************************************************)
(* The program: the entry point and the interactive loop.                  *)
(***************************************************************************)
NoLine == [kind |-> "none", text |-> ""]
NoLocals == [q |-> "", v |-> << >>, fu |-> "", tu |-> ""]

\* input() returns a line or raises
Returned(s) == [kind |-> "line", text |-> s]
Raised(e) == [kind |-> e, text |-> ""]

QuantityLines == {"length", " Temperature", "bogus", "", "  ", "quit", "Q", "EXIT "}
ValueLines == {"10", " -2.5 ", "abc", ""}
UnitLines == {"m", "FT ", "furlong", "c", "q", ""}
Signals == {"EOFError", "KeyboardInterrupt"}

Inputs(lines) == {Returned(s) : s \in lines} \cup {Raised(e) : e \in Signals}

Prog == "unitconverter.py"
ArgChoices == <<{"length", "temperature", "bogus"}, {"10", "abc"},
                {"m", "c", "furlong"}, {"ft", "f", "furlong"}, {"extra"}>>

Argvs ==
    UNION {{<<Prog>> \o args : args \in
               {s \in [1..n -> UNION Range(ArgChoices)] :
                    \A i \in 1..n : s[i] \in ArgChoices[i]}} :
           n \in 0..Len(ArgChoices)}

Init ==
    /\ argv \in Argvs
    /\ pc = "start"
    /\ line = NoLine
    /\ locals = NoLocals
    /\ printed = << >>
    /\ converts = 0
    /\ prompts = 0
    /\ rounds = 0
    /\ call = [op |-> "none"]
    /\ ret = << >>
    /\ back = << >>

\* if len(sys.argv) > 1
HasArgs(a) == Len(a) > 1

\* variant: off by one, the program name is not counted
HasAllArgs_off_by_one(a) == Len(a) >= 4

\* if len(sys.argv) >= 5
HasAllArgs(a) == Len(a) >= 5

\* the try block of the entry point
OneShot ==
    /\ pc = "start"
    /\ HasArgs(argv)
    /\ HasAllArgs(argv)
    /\ LET first == SubSeq(argv, 1, IF Len(argv) < 5 THEN Len(argv) ELSE 5)
           unpacked == Len(first) = 5
           valf == IF unpacked THEN float(first[3])
                   ELSE Raise("not enough values to unpack", 0)
           res == IF valf.ok
                  THEN convert(first[2], valf.val[1], first[4], first[5])
                  ELSE valf
       IN  /\ converts' = IF valf.ok THEN converts + 1 ELSE converts
           /\ printed' = IF res.ok
                         THEN <<[text |-> "{}", vals |-> res.val]>>
                         ELSE <<Text("Error: " \o res.msg), USAGE>>
    /\ pc' = "exited"
    /\ UNCHANGED <<argv, line, locals, prompts, rounds>>
    /\ UNCHANGED coreVars

Usage ==
    /\ pc = "start"
    /\ HasArgs(argv)
    /\ ~HasAllArgs(argv)
    /\ printed' = <<USAGE, EXAMPLE>>
    /\ pc' = "exited"
    /\ UNCHANGED <<argv, line, locals, converts, prompts, rounds>>
    /\ UNCHANGED coreVars

\* _cli() up to its first prompt
StartCli ==
    /\ pc = "start"
    /\ ~HasArgs(argv)
    /\ printed' = Banner
    /\ pc' = "quantity"
    /\ UNCHANGED <<argv, line, locals, converts, prompts, rounds>>
    /\ UNCHANGED coreVars

\* except (KeyboardInterrupt, EOFError)
Interrupted ==
    /\ printed' = <<Text("\nExiting.")>>
    /\ pc' = "exited"
    /\ UNCHANGED <<locals, converts>>

QuitTokens == {"quit", "q", "exit"}

\* if not q or q.lower() inp ("quit", "q", "exit")
IsQuit(s) == s = "" \/ lower(s) \in QuitTokens

ReadQuantity(inp) ==
    /\ pc = "quantity"
    /\ rounds < MaxRounds
    /\ rounds' = rounds + 1
    /\ line' = inp
    /\ prompts' = prompts + 1
    /\ IF inp.kind # "line" THEN Interrupted
       ELSE LET s == strip(inp.text)
                listed == list_units(s)
            IN  /\ locals' = [locals EXCEPT !.q = s]
                /\ UNCHANGED converts
                /\ IF IsQuit(s)
                   THEN /\ printed' = << >>
                        /\ pc' = "exited"
                   ELSE IF listed.ok
                   THEN /\ printed' = <<Text("Available units: "
                                              \o Join(", ", listed.val[1]))>>
                        /\ pc' = "value"
                   ELSE /\ printed' = <<Text("Error: " \o listed.msg)>>
                        /\ pc' = "quantity"
    /\ UNCHANGED argv
    /\ UNCHANGED coreVars

\* variant: a value that does not parse ends the loop
ReadValue_unguarded(inp) ==
    /\ pc = "value"
    /\ line' = inp
    /\ prompts' = prompts + 1
    /\ IF inp.kind # "line" THEN Interrupted
       ELSE LET parsed == float(strip(inp.text))
            IN  /\ UNCHANGED converts
                /\ IF parsed.ok
                   THEN /\ locals' = [locals EXCEPT !.v = parsed.val]
                        /\ printed' = << >>
                        /\ pc' = "from"
                   ELSE /\ UNCHANGED locals
                        /\ printed' = <<Text("Conversion error: " \o parsed.msg)>>
                        /\ pc' = "exited"
    /\ UNCHANGED <<argv, rounds>>
    /\ UNCHANGED coreVars

ReadValue(inp) ==
    /\ pc = "value"
    /\ line' = inp
    /\ prompts' = prompts + 1
    /\ IF inp.kind # "line" THEN Interrupted
       ELSE LET parsed == float(strip(inp.text))
            IN  /\ UNCHANGED converts
                /\ IF parsed.ok
                   THEN /\ locals' = [locals EXCEPT !.v = parsed.val]
                        /\ printed' = << >>
                        /\ pc' = "from"
                   ELSE /\ UNCHANGED locals
                        /\ printed' = <<Text("Conversion error: " \o parsed.msg)>>
                        /\ pc' = "quantity"
    /\ UNCHANGED <<argv, rounds>>
    /\ UNCHANGED coreVars

ReadFrom(inp) ==
    /\ pc = "from"
    /\ line' = inp
    /\ prompts' = prompts + 1
    /\ IF inp.kind # "line" THEN Interrupted
       ELSE /\ locals' = [locals EXCEPT !.fu = strip(inp.text)]
            /\ printed' = << >>
            /\ pc' = "to"
            /\ UNCHANGED converts
    /\ UNCHANGED <<argv, rounds>>
    /\ UNCHANGED coreVars

ReadTo(inp) ==
    /\ pc = "to"
    /\ line' = inp
    /\ prompts' = prompts + 1
    /\ IF inp.kind # "line" THEN Interrupted
       ELSE LET s == strip(inp.text)
                out == convert(locals.q, locals.v[1], locals.fu, s)
            IN  /\ locals' = [locals EXCEPT !.tu = s]
                /\ converts' = converts + 1
                /\ printed' =
                       IF out.ok
                       THEN <<[text |-> "{} " \o locals.fu \o " = {} " \o s,
                               vals |-> locals.v \o out.val]>>
                       ELSE <<Text("Conversion error: " \o out.msg)>>
                /\ pc' = "quantity"
    /\ UNCHANGED <<argv, rounds>>
    /\ UNCHANGED coreVars

Next ==
    \/ OneShot
    \/ Usage
    \/ StartCli
    \/ \E inp \in Inputs(QuantityLines) : ReadQuantity(inp)
    \/ \E inp \in Inputs(ValueLines) : ReadValue(inp)
    \/ \E inp \in Inputs(UnitLines) : ReadFrom(inp)
    \/ \E inp \in Inputs(UnitLines) : ReadTo(inp)

Spec == Init /\ [][Next]_vars

(***************************************************************************)
(* The inputs that are explored.                                           *)
(***************************************************************************)
RECURSIVE Blank(_)
Blank(n) == IF n = 0 THEN "" ELSE " " \o Blank(n - 1)

\* spellings of s that differ from s and normalise to it
Decorations(s) ==
    {upper(s)}
        \cup {Blank(n) \o s : n \in 1..MaxPad}
        \cup {upper(s) \o Blank(n) \o "\t" : n \in 1..MaxPad}

Decorated(names) ==
    UNION {Decorations(names[i]) :
               i \in 1..(IF Len(names) < MaxDecorated THEN Len(names) ELSE MaxDecorated)}

TemperatureNames ==
    <<"c", "fahrenheit", "*k", "celsius", "*c", "f", "*f", "k", "kelvin",
      "kelvins", "C", "F", "K">>

RECURSIVE KeySeq(_)
KeySeq(items) ==
    IF items = << >> THEN << >> ELSE <<items[1][1]>> \o KeySeq(Tail(items))

UnitNames(qn) ==
    IF qn = "temperature" THEN TemperatureNames
    ELSE IF qn \in DOMAIN UNIT_MAPS THEN KeySeq(UNIT_MAPS[qn])
    ELSE <<"m", "ft">>

UnitInputs(qn) ==
    Range(UnitNames(qn)) \cup Decorated(UnitNames(qn)) \cup {"furlong", ""}

QuantityInputs ==
    Range(list_quantities)
        \cup Decorated(<<"length", "temperature", "force", "mass">>)
        \cup {"bogus", ""}

Values == {Num(0, 1), Num(1, 1), Num(212, 1), Num(-5, 2)}

(***************************************************************************)
(* The core on its own: one call of a public operation on inputs drawn     *)
(* from the sets above, and for convert the conversion of the result back. *)
(***************************************************************************)
Idle ==
    /\ argv = << >>
    /\ pc = "idle"
    /\ line = NoLine
    /\ locals = NoLocals
    /\ printed = << >>
    /\ converts = 0
    /\ prompts = 0
    /\ rounds = 0

CoreInit ==
    /\ \/ \E qi \in QuantityInputs, x \in Values :
            \E f, t \in UnitInputs(lower(strip(qi))) :
                call = [op |-> "convert", quantity |-> qi, value |-> x,
                        from_unit |-> f, to_unit |-> t]
       \/ \E qi \in QuantityInputs : call = [op |-> "list_units", quantity |-> qi]
       \/ call = [op |-> "list_quantities"]
    /\ ret = << >>
    /\ back = << >>
    /\ Idle

Convert ==
    /\ call.op = "convert"
    /\ ret = << >>
    /\ ret' = <<convert(call.quantity, call.value, call.from_unit, call.to_unit)>>
    /\ UNCHANGED <<call, back>>
    /\ UNCHANGED progVars

\* convert(q, convert(q, v, u1, u2), u2, u1)
ConvertBack ==
    /\ call.op = "convert"
    /\ ret # << >>
    /\ ret[1].ok
    /\ back = << >>
    /\ back' = <<convert(call.quantity, ret[1].val[1], call.to_unit, call.from_unit)>>
    /\ UNCHANGED <<call, ret>>
    /\ UNCHANGED progVars

ListUnits ==
    /\ call.op = "list_units"
    /\ ret = << >>
    /\ ret' = <<list_units(call.quantity)>>
    /\ UNCHANGED <<call, back>>
    /\ UNCHANGED progVars

ListQuantities ==
    /\ call.op = "list_quantities"
    /\ ret = << >>
    /\ ret' = <<Ok(list_quantities)>>
    /\ UNCHANGED <<call, back>>
    /\ UNCHANGED progVars

CoreNext == Convert \/ ConvertBack \/ ListUnits \/ ListQuantities

Core == CoreInit /\ [][CoreNext]_vars

(***************************************************************************)
(* Properties.                                                             *)
(***************************************************************************)
Normal(s) == lower(strip(s))

Done(op) == call.op = op /\ ret # << >>

TemperatureAliases == CelsiusAliases \cup FahrenheitAliases \cup KelvinAliases

\* list_units(q) for each name q that list_quantities returns
Listed == [qn \in Range(list_quantities) |-> list_units(qn)]

\* the unit spellings convert accepts for a normalised quantity
Accepted ==
    [qn \in Range(list_quantities) |->
        IF qn = "temperature" THEN TemperatureAliases
        ELSE {Normal(u) : u \in Range(Listed[qn].val[1])}]

AcceptedUnits(qn) == IF qn \in DOMAIN Accepted THEN Accepted[qn] ELSE {}

KnownQuantity(qn) == qn = "temperature" \/ qn \in DOMAIN UNIT_MAPS

EndsWith(s, t) == Len(t) <= Len(s) /\ SubSeq(s, Len(s) - Len(t) + 1, Len(s)) = t
StartsWith(s, t) == Len(t) <= Len(s) /\ SubSeq(s, 1, Len(t)) = t

\* C1 as stated: a call of convert that returns a result has both unit
\* strings among the elements of the sequence list_units(quantity) returns.
C1_UnitsListed ==
    (Done("convert") /\ ret[1].ok) =>
        LET listed == list_units(call.quantity)
        IN  /\ listed.ok
            /\ call.from_unit \in Range(listed.val[1])
            /\ call.to_unit \in Range(listed.val[1])

\* C1 amended: a call of convert that returns a result has a quantity that
\* list_units accepts, and each unit string, trimmed and lowercased, is an
\* accepted alias of it: the trimmed, lowercased form of an element of
\* list_units(quantity) for a quantity of the table, one of the aliases of
\* Celsius, Fahrenheit and Kelvin for temperature.
C1_UnitsAccepted ==
    (Done("convert") /\ ret[1].ok) =>
        /\ KnownQuantity(Normal(call.quantity))
        /\ Normal(call.from_unit) \in AcceptedUnits(Normal(call.quantity))
        /\ Normal(call.to_unit) \in AcceptedUnits(Normal(call.quantity))

C1_Witness ==
    /\ Done("convert")
    /\ ret[1].ok
    /\ call.quantity = "length"
    /\ call.from_unit = "M"
    /\ call.to_unit \notin Range(list_units(call.quantity).val[1])

\* the factor stored for alias u in the table of quantity qn
scale(qn, u) ==
    LET items == UNIT_MAPS[qn]
    IN  items[CHOOSE i \in 1..Len(items) : items[i][1] = u][2]

\* C2: for a quantity of the table and two of its aliases u1, u2,
\* convert(q, v, u1, u2) returns v * scale(u1) / scale(u2), and for v = 1
\* it returns scale(u1) / scale(u2).
C2_ScaleConsistency ==
    (/\ Done("convert")
     /\ call.quantity \in DOMAIN UNIT_MAPS
     /\ call.from_unit \in Keys(UNIT_MAPS[call.quantity])
     /\ call.to_unit \in Keys(UNIT_MAPS[call.quantity])) =>
        LET s1 == scale(call.quantity, call.from_unit)
            s2 == scale(call.quantity, call.to_unit)
        IN  /\ ret[1].ok
            /\ ret[1].val = <<Div(Mul(call.value, s1), s2)>>
            /\ call.value = One => ret[1].val = <<Div(s1, s2)>>

C2_Witness ==
    /\ Done("convert")
    /\ call.quantity = "force"
    /\ call.from_unit = "kN"
    /\ call.to_unit = "lbf"
    /\ call.value = One
    /\ ret[1].ok

\* the formulas of the claim, by normalised unit
C3_ToKelvin(u, x) ==
    IF u \in CelsiusAliases THEN Add(x, Num(27315, 100))
    ELSE IF u \in FahrenheitAliases
    THEN Add(Div(Mul(Sub(x, Num(32, 1)), Num(5, 1)), Num(9, 1)), Num(27315, 100))
    ELSE x

C3_FromKelvin(u, k) ==
    IF u \in CelsiusAliases THEN Sub(k, Num(27315, 100))
    ELSE IF u \in FahrenheitAliases
    THEN Add(Div(Mul(Sub(k, Num(27315, 100)), Num(9, 1)), Num(5, 1)), Num(32, 1))
    ELSE k

\* C3: for temperature and two accepted aliases, convert returns the value
\* mapped to Kelvin by the from-unit's formula and then from Kelvin by the
\* to-unit's inverse formula; 0 c -> f gives 32 and 212 f -> c gives 100.
C3_TemperatureFormulas ==
    (/\ Done("convert")
     /\ Normal(call.quantity) = "temperature"
     /\ Normal(call.from_unit) \in TemperatureAliases
     /\ Normal(call.to_unit) \in TemperatureAliases) =>
        LET f == Normal(call.from_unit)
            t == Normal(call.to_unit)
        IN  /\ ret[1].ok
            /\ ret[1].val = <<C3_FromKelvin(t, C3_ToKelvin(f, call.value))>>
            /\ (call.value = Num(0, 1) /\ f = "c" /\ t = "f")
                   => ret[1].val = <<Num(32, 1)>>
            /\ (call.value = Num(212, 1) /\ f = "f" /\ t = "c")
                   => ret[1].val = <<Num(100, 1)>>

C3_Witness ==
    /\ Done("convert")
    /\ call.quantity = "temperature"
    /\ call.from_unit = "f"
    /\ call.to_unit = "c"
    /\ call.value = Num(212, 1)
    /\ ret[1] = Ok(Num(100, 1))

\* C4: convert returns no value on an invalid input and raises the first
\* error that applies: unknown quantity, then invalid from_unit (the error
\* names from_unit), then invalid to_unit (the error names to_unit), in the
\* temperature branch as in the table branch.
C4_ErrorOrder ==
    Done("convert") =>
        LET qn == Normal(call.quantity)
            okFrom == Normal(call.from_unit) \in AcceptedUnits(qn)
            okTo == Normal(call.to_unit) \in AcceptedUnits(qn)
            r == ret[1]
        IN  /\ ~KnownQuantity(qn) =>
                /\ ~r.ok
                /\ r.at = 173
                /\ r.msg = "Unsupported quantity: " \o call.quantity
            /\ (KnownQuantity(qn) /\ ~okFrom) =>
                /\ ~r.ok
                /\ r.at \in {140, 181}
                /\ EndsWith(r.msg, ": " \o call.from_unit)
            /\ (KnownQuantity(qn) /\ okFrom /\ ~okTo) =>
                /\ ~r.ok
                /\ r.at \in {150, 183}
                /\ EndsWith(r.msg, ": " \o call.to_unit)
            /\ (KnownQuantity(qn) /\ okFrom /\ okTo) => r.ok
            /\ r.ok <=> r.val # << >>

C4_Witness ==
    /\ Done("convert")
    /\ call.quantity = "length"
    /\ call.from_unit = "furlong"
    /\ call.to_unit = ""
    /\ ret[1] = Raise("Unknown unit for length: furlong", 181)

SameOutcome(a, b) == a.ok = b.ok /\ a.val = b.val /\ a.at = b.at

\* C5: the outcome of convert is the outcome of convert on the trimmed,
\* lowercased quantity, from_unit and to_unit with the same value: the same
\* result, or an error of the same kind.  Two calls whose strings agree
\* after trimming and lowercasing therefore have the same outcome.
C5_Normalisation ==
    Done("convert") =>
        SameOutcome(ret[1],
                    convert(Normal(call.quantity), call.value,
                            Normal(call.from_unit), Normal(call.to_unit)))

C5_Witness ==
    /\ Done("convert")
    /\ call.quantity = " length"
    /\ call.from_unit = "M \t"
    /\ call.to_unit = " m"
    /\ ret[1].ok

UsageOnly ==
    /\ pc = "exited"
    /\ printed = <<USAGE, EXAMPLE>>
    /\ converts = 0
    /\ prompts = 0

\* C7 as stated: with fewer than four arguments (zero to three) the program
\* prints the usage message and the example, never calls convert and
\* starts no prompt.
C7_FewerThanFour ==
    (pc # "start" /\ Len(argv) - 1 < 4) => UsageOnly

\* C7 amended: with one, two or three arguments the program prints the
\* usage message and the example, never calls convert and starts no prompt.
C7_OneToThree ==
    (pc # "start" /\ Len(argv) - 1 \in 1..3) => UsageOnly

C7_Witness ==
    /\ pc = "exited"
    /\ Len(argv) = 4
    /\ printed = <<USAGE, EXAMPLE>>

PromptStates == {"quantity", "value", "from", "to"}

ExitLine(s) == strip(s) = "" \/ lower(strip(s)) \in {"quit", "q", "exit"}

ErrorShown(out) ==
    /\ Len(out) = 1
    /\ \/ StartsWith(out[1].text, "Error: ")
       \/ StartsWith(out[1].text, "Conversion error: ")

\* C8: the loop leaves its prompts only on end of input or an interrupt, or
\* when the quantity prompt reads a line that is empty or quit, q or exit
\* (trimmed, in any case); an error raised by list_units, by parsing the
\* value or by convert is displayed and the next prompt is the quantity
\* prompt.
C8_LoopExit ==
    [][/\ (pc \in PromptStates /\ pc' = "exited") =>
              \/ line'.kind \in Signals
              \/ pc = "quantity" /\ line'.kind = "line" /\ ExitLine(line'.text)
       /\ (pc = "quantity" /\ line'.kind = "line" /\ ~ExitLine(line'.text)
               /\ ~list_units(strip(line'.text)).ok) =>
              (ErrorShown(printed') /\ pc' = "quantity")
       /\ (pc = "value" /\ line'.kind = "line" /\ ~float(line'.text).ok) =>
              (ErrorShown(printed') /\ pc' = "quantity")
       /\ (pc = "to" /\ line'.kind = "line"
               /\ ~convert(locals.q, locals.v[1], locals.fu, strip(line'.text)).ok) =>
              (ErrorShown(printed') /\ pc' = "quantity")
      ]_vars

C8_Witness ==
    /\ pc = "quantity"
    /\ rounds = 2
    /\ converts = 1
    /\ prompts = 5
    /\ ErrorShown(printed)

\* C9: every quantity list_quantities returns other than temperature has an
\* alias whose factor is 1.0, and every factor of the table is positive.
C9_TableInvariant ==
    Done("list_quantities") =>
        \A qn \in Range(ret[1].val[1]) \ {"temperature"} :
            LET items == UNIT_MAPS[qn]
            IN  /\ \E i \in 1..Len(items) : items[i][2] = One
                /\ \A i \in 1..Len(items) : IsPositive(items[i][2])

\* C10: list_units succeeds on every name list_quantities returns, and
\* convert succeeds on every pair of strings list_units returns for it.
C10_OperationsAgree ==
    /\ (Done("list_units") /\ call.quantity \in Range(list_quantities)) => ret[1].ok
    /\ (/\ Done("convert")
        /\ call.quantity \in Range(list_quantities)
        /\ Listed[call.quantity].ok
        /\ call.from_unit \in Range(Listed[call.quantity].val[1])
        /\ call.to_unit \in Range(Listed[call.quantity].val[1])) => ret[1].ok

C10_Witness ==
    /\ Done("convert")
    /\ call.quantity = "temperature"
    /\ call.from_unit = "C"
    /\ call.to_unit = "K"
    /\ ret[1].ok
====
